---------------------------- MODULE Spec2Model ----------------------------
(***************************************************************************)
(* Model of the MRZ parser of the mrtd crate (src/src/parser.rs).          *)
(* An MRZ string is a sequence of characters, each a one-character string; *)
(* offsets are written 0-indexed and half-open, as in the source.          *)
(***************************************************************************)
EXTENDS Integers, Sequences, FiniteSets, TLC

VARIABLES input, now, last, prev, edits, verified

vars == <<input, now, last, prev, edits, verified>>

---------------------------------------------------------------------------
(* Characters *)

UpperSeq ==
    << "A", "B", "C", "D", "E", "F", "G", "H", "I", "J", "K", "L", "M",
       "N", "O", "P", "Q", "R", "S", "T", "U", "V", "W", "X", "Y", "Z" >>

DigitSeq ==
    << "0", "1", "2", "3", "4", "5", "6", "7", "8", "9" >>

Upper == { UpperSeq[i] : i \in 1..26 }

Digits == { DigitSeq[i] : i \in 1..10 }

Filler == "<"

\* The character class [A-Z0-9<] of both regular expressions.
MrzAlphabet == Upper \cup Digits \cup {Filler}

\* Characters outside the class: blank, line break, lower case, and two
\* non-ASCII code points (the ones of the encoding tests).
ForeignChars == { " ", "\n", "a", "U+1F576", "U+FE0F" }

\* 0-indexed access: mrz[i], data.chars().nth(i)
At(s, i) == s[i + 1]

\* Half-open 0-indexed range: &mrz[a..b], &data[a..b]
Slice(s, a, b) == SubSeq(s, a + 1, b)

\* str::replace('<', "")
StripFiller(s) == SelectSeq(s, LAMBDA c : c # Filler)

---------------------------------------------------------------------------
(* Results *)

NoDate == [year |-> 0, month |-> 0, day |-> 0]

NoDocument ==
    [type |-> "None", country |-> <<>>, surnames |-> <<>>, given_names |-> <<>>,
     number |-> <<>>, nationality |-> <<>>, birth_date |-> NoDate,
     gender |-> "None", expiry_date |-> NoDate]

Ok(doc) == [kind |-> "Ok", err |-> "None", doc |-> doc]

Err(e) == [kind |-> "Err", err |-> e, doc |-> NoDocument]

\* A failed unwrap() or an out-of-range index aborts the call.
Panic == [kind |-> "Panic", err |-> "None", doc |-> NoDocument]

---------------------------------------------------------------------------
(* Shape validation *)

\* Mutant: the character class dropped from the pattern (^.{88}$).
VALID_PASSPORT_MRZ_any_char(s) == Len(s) = 88

VALID_PASSPORT_MRZ(s) ==
    /\ Len(s) = 88
    /\ \A i \in 1..Len(s) : s[i] \in MrzAlphabet

VALID_IDENTITY_CARD_MRZ(s) ==
    /\ Len(s) = 90
    /\ \A i \in 1..Len(s) : s[i] \in MrzAlphabet

---------------------------------------------------------------------------
(* Check digits *)

IndexIn(seq, c) == CHOOSE i \in 1..Len(seq) : seq[i] = c

\* The match of char_weighting: -1 stands for the InvalidChar arm.
char_value(c) ==
    IF c \in Digits THEN IndexIn(DigitSeq, c) - 1
    ELSE IF c \in Upper THEN IndexIn(UpperSeq, c) + 9
    ELSE IF c = Filler THEN 0
    ELSE -1

\* Mutant: the last two weights swapped.
weighting_swapped(i) == <<7, 1, 3>>[(i % 3) + 1]

\* [7, 3, 1].iter().cycle(), at 0-indexed position i
weighting(i) == <<7, 3, 1>>[(i % 3) + 1]

RECURSIVE weighted_sum(_, _)
weighted_sum(s, n) ==
    IF n = 0 THEN 0
    ELSE weighted_sum(s, n - 1) + char_value(s[n]) * weighting(n - 1)

\* "Ok", or the name of the error returned.  The sum is a u32; over the
\* at most 39 characters of a span it stays below 39 * 35 * 7.
verify_check_digit(slice, check_digit) ==
    IF \E i \in 1..Len(slice) : char_value(slice[i]) < 0 THEN "InvalidChar"
    ELSE IF check_digit = weighted_sum(slice, Len(slice)) % 10 THEN "Ok"
    ELSE "BadCheckDigit"

\* Mutant: a character that is no digit counts as 0.
char_to_num_lenient(full_str, ind) ==
    IF ind >= Len(full_str) THEN [err |-> "InvalidFormat", val |-> 0]
    ELSE IF At(full_str, ind) \in Digits
         THEN [err |-> "Ok", val |-> IndexIn(DigitSeq, At(full_str, ind)) - 1]
         ELSE [err |-> "Ok", val |-> 0]

\* [err, val]: err is "Ok" or the name of the error returned.
char_to_num(full_str, ind) ==
    IF ind >= Len(full_str) THEN [err |-> "InvalidFormat", val |-> 0]
    ELSE IF At(full_str, ind) \in Digits
         THEN [err |-> "Ok", val |-> IndexIn(DigitSeq, At(full_str, ind)) - 1]
         ELSE [err |-> "ExpectedDigit", val |-> 0]

\* verify_check_digit(slice, char_to_num(data, ind)?)?
check_step(data, slice, ind) ==
    LET d == char_to_num(data, ind)
    IN  IF d.err # "Ok" THEN d.err ELSE verify_check_digit(slice, d.val)

---------------------------------------------------------------------------
(* Name field *)

\* Smallest 1-indexed i with s[i] = s[i+1] = '<', or 0 when "<<" is absent.
find_double(s) ==
    LET hits == { i \in 1..(Len(s) - 1) : s[i] = Filler /\ s[i + 1] = Filler }
    IN  IF hits = {} THEN 0 ELSE CHOOSE i \in hits : \A j \in hits : i <= j

\* str::split("<<"): the pieces between non-overlapping matches, left to right.
RECURSIVE split_double(_)
split_double(s) ==
    LET i == find_double(s)
    IN  IF i = 0 THEN << s >>
        ELSE << SubSeq(s, 1, i - 1) >> \o split_double(SubSeq(s, i + 2, Len(s)))

find_filler(s) ==
    LET hits == { i \in 1..Len(s) : s[i] = Filler }
    IN  IF hits = {} THEN 0 ELSE CHOOSE i \in hits : \A j \in hits : i <= j

\* str::split('<')
RECURSIVE split_filler(_)
split_filler(s) ==
    LET i == find_filler(s)
    IN  IF i = 0 THEN << s >>
        ELSE << SubSeq(s, 1, i - 1) >> \o split_filler(SubSeq(s, i + 1, Len(s)))

\* .split('<').filter(|name| !name.is_empty()).map(String::from).collect()
name_tokens(piece) == SelectSeq(split_filler(piece), LAMBDA t : t # << >>)

\* Mutant: names.reverse() left out, so that pop() takes the pieces from the end.
split_names_no_reverse(field) ==
    LET names == split_double(field)
    IN  IF Len(names) < 2
        THEN [ok |-> FALSE, surnames |-> << >>, given_names |-> << >>]
        ELSE [ok |-> TRUE, surnames |-> name_tokens(names[Len(names)]),
              given_names |-> name_tokens(names[Len(names) - 1])]

\* Mutant: a missing second piece taken as an empty list of given names.
split_names_lenient(field) ==
    LET names == split_double(field)
    IN  [ok |-> TRUE, surnames |-> name_tokens(names[1]),
         given_names |-> IF Len(names) < 2 THEN << >> ELSE name_tokens(names[2])]

\* names.reverse(); names.pop(): the first piece, then the second one.
\* ok is FALSE when a pop() yields None (ok_or(Error::InvalidFormat)?).
split_names(field) ==
    LET names == split_double(field)
    IN  IF Len(names) < 2
        THEN [ok |-> FALSE, surnames |-> << >>, given_names |-> << >>]
        ELSE [ok |-> TRUE, surnames |-> name_tokens(names[1]),
              given_names |-> name_tokens(names[2])]

---------------------------------------------------------------------------
(* Dates *)

IsLeap(y) == (y % 4 = 0 /\ y % 100 # 0) \/ y % 400 = 0

DaysInMonth(y, m) ==
    IF m = 2 THEN (IF IsLeap(y) THEN 29 ELSE 28)
    ELSE IF m \in {4, 6, 9, 11} THEN 30 ELSE 31

TwoDigits(s, i) == 10 * char_value(s[i]) + char_value(s[i + 1])

\* NaiveDate::parse_from_str(s, DATE_FORMAT) with DATE_FORMAT = "%y%m%d" on
\* six characters of the MRZ alphabet.  Each item takes up to two digits and
\* nothing may be left over, so the parse succeeds only on six digits; %y
\* alone gives the year 20YY for YY < 70 and 19YY otherwise; month and day
\* must name a day of that year.
parse_from_str(s) ==
    IF \E i \in 1..Len(s) : s[i] \notin Digits THEN [ok |-> FALSE, date |-> NoDate]
    ELSE LET yy == TwoDigits(s, 1)
             mm == TwoDigits(s, 3)
             dd == TwoDigits(s, 5)
             year == IF yy < 70 THEN 2000 + yy ELSE 1900 + yy
         IN  IF mm \in 1..12 /\ dd >= 1 /\ dd <= DaysInMonth(year, mm)
             THEN [ok |-> TRUE, date |-> [year |-> year, month |-> mm, day |-> dd]]
             ELSE [ok |-> FALSE, date |-> NoDate]

\* NaiveDate::with_year: None when the day does not exist in that year.
with_year(date, year) ==
    IF date.day <= DaysInMonth(year, date.month)
    THEN [ok |-> TRUE, date |-> [date EXCEPT !.year = year]]
    ELSE [ok |-> FALSE, date |-> NoDate]

\* Mutant: the century taken from the clock instead of the parsed year.
century_rule_from_clock(birth_date, current_year) ==
    IF birth_date.year > current_year
    THEN with_year(birth_date, current_year - 100)
    ELSE [ok |-> TRUE, date |-> birth_date]

\* if birth_year > current_year { birth_date.with_year(birth_year - 100) }
\* ok is FALSE when with_year yields None, which unwrap() turns into an abort.
century_rule(birth_date, current_year) ==
    IF birth_date.year > current_year
    THEN with_year(birth_date, birth_date.year - 100)
    ELSE [ok |-> TRUE, date |-> birth_date]

gender_of(c) ==
    IF c = "M" THEN "Male" ELSE IF c = "F" THEN "Female" ELSE "Other"

---------------------------------------------------------------------------
(* TD-3 *)

passport_code_ok(c) == c = "P"

passport_country(data) == StripFiller(Slice(data, 2, 5))

passport_name_field(data) == Slice(data, 5, 43)

\* Mutant: the range of the number runs over its check digit.
passport_number_with_digit(data) == StripFiller(Slice(data, 44, 54))

passport_number(data) == StripFiller(Slice(data, 44, 53))

passport_nationality(data) == StripFiller(Slice(data, 54, 57))

\* Mutant: the birth field read one character to the right.
passport_birth_field_shifted(data) == Slice(data, 58, 64)

passport_birth_field(data) == Slice(data, 57, 63)

passport_gender(data) == gender_of(At(data, 64))

passport_expiry_field(data) == Slice(data, 65, 71)

\* Mutant: the last range of the composite stops before the optional-data digit.
passport_composite_short(data) ==
    Slice(data, 44, 54) \o Slice(data, 57, 64) \o Slice(data, 65, 86)

\* format!("{}{}{}", &data[44..54], &data[57..64], &data[65..87])
passport_composite(data) ==
    Slice(data, 44, 54) \o Slice(data, 57, 64) \o Slice(data, 65, 87)

parse_passport(mrz, check, current_year) ==
    IF Len(mrz) = 0 THEN Panic
    ELSE IF ~passport_code_ok(At(mrz, 0)) THEN Err("InvalidDocumentType")
    ELSE IF Len(mrz) < 88 THEN Panic
    ELSE
    LET names  == split_names(passport_name_field(mrz))
        c_num  == check_step(mrz, Slice(mrz, 44, 53), 53)
        birth  == parse_from_str(passport_birth_field(mrz))
        rolled == century_rule(birth.date, current_year)
        c_birth  == check_step(mrz, Slice(mrz, 57, 63), 63)
        expiry   == parse_from_str(passport_expiry_field(mrz))
        c_expiry == check_step(mrz, Slice(mrz, 65, 71), 71)
        c_opt    == check_step(mrz, Slice(mrz, 72, 86), 86)
        c_comp   == check_step(mrz, passport_composite(mrz), 87)
    IN  IF ~names.ok THEN Err("InvalidFormat")
        ELSE IF check /\ c_num # "Ok" THEN Err(c_num)
        ELSE IF ~birth.ok THEN Err("InvalidBirthDate")
        ELSE IF ~rolled.ok THEN Panic
        ELSE IF check /\ c_birth # "Ok" THEN Err(c_birth)
        ELSE IF ~expiry.ok THEN Err("InvalidExpiryDate")
        ELSE IF check /\ c_expiry # "Ok" THEN Err(c_expiry)
        ELSE IF check /\ c_opt # "Ok" THEN Err(c_opt)
        ELSE IF check /\ c_comp # "Ok" THEN Err(c_comp)
        ELSE Ok([type |-> "Passport",
                 country |-> passport_country(mrz),
                 surnames |-> names.surnames,
                 given_names |-> names.given_names,
                 number |-> passport_number(mrz),
                 nationality |-> passport_nationality(mrz),
                 birth_date |-> rolled.date,
                 gender |-> passport_gender(mrz),
                 expiry_date |-> expiry.date])

---------------------------------------------------------------------------
(* TD-1 *)

\* Mutant: the passport code accepted for identity cards too.
identity_card_code_ok_with_p(c) == c \in {"I", "A", "C", "P"}

identity_card_code_ok(c) == c \in {"I", "A", "C"}

identity_card_country(data) == StripFiller(Slice(data, 2, 5))

\* &mrz[60..]
identity_card_name_field(data) == Slice(data, 60, Len(data))

identity_card_number(data) == StripFiller(Slice(data, 5, 14))

identity_card_nationality(data) == StripFiller(Slice(data, 2, 5))

identity_card_birth_field(data) == Slice(data, 30, 36)

identity_card_gender(data) == gender_of(At(data, 37))

identity_card_expiry_field(data) == Slice(data, 38, 44)

\* format!("{}{}{}{}", &data[5..30], &data[30..37], &data[38..45], &data[48..59])
identity_card_composite(data) ==
    Slice(data, 5, 30) \o Slice(data, 30, 37) \o Slice(data, 38, 45) \o Slice(data, 48, 59)

parse_identity_card(mrz, check, current_year) ==
    IF Len(mrz) = 0 THEN Panic
    ELSE IF ~identity_card_code_ok(At(mrz, 0)) THEN Err("InvalidDocumentType")
    ELSE IF Len(mrz) < 60 THEN Panic
    ELSE
    LET names  == split_names(identity_card_name_field(mrz))
        c_num  == check_step(mrz, Slice(mrz, 5, 14), 14)
        birth  == parse_from_str(identity_card_birth_field(mrz))
        rolled == century_rule(birth.date, current_year)
        c_birth  == check_step(mrz, Slice(mrz, 30, 36), 36)
        expiry   == parse_from_str(identity_card_expiry_field(mrz))
        c_expiry == check_step(mrz, Slice(mrz, 38, 44), 44)
        c_comp   == check_step(mrz, identity_card_composite(mrz), 59)
    IN  IF ~names.ok THEN Err("InvalidFormat")
        ELSE IF check /\ c_num # "Ok" THEN Err(c_num)
        ELSE IF ~birth.ok THEN Err("InvalidBirthDate")
        ELSE IF ~rolled.ok THEN Panic
        ELSE IF check /\ c_birth # "Ok" THEN Err(c_birth)
        ELSE IF ~expiry.ok THEN Err("InvalidExpiryDate")
        ELSE IF check /\ c_expiry # "Ok" THEN Err(c_expiry)
        ELSE IF check /\ c_comp # "Ok" THEN Err(c_comp)
        ELSE Ok([type |-> "IdentityCard",
                 country |-> identity_card_country(mrz),
                 surnames |-> names.surnames,
                 given_names |-> names.given_names,
                 number |-> identity_card_number(mrz),
                 nationality |-> identity_card_nationality(mrz),
                 birth_date |-> rolled.date,
                 gender |-> identity_card_gender(mrz),
                 expiry_date |-> expiry.date])

---------------------------------------------------------------------------
(* Entry point *)

\* parse(data, check); the third argument is the year Utc::now() reports.
parse(s, check, current_year) ==
    IF VALID_PASSPORT_MRZ(s) THEN parse_passport(s, check, current_year)
    ELSE IF VALID_IDENTITY_CARD_MRZ(s) THEN parse_identity_card(s, check, current_year)
    ELSE Err("InvalidFormat")

---------------------------------------------------------------------------
(* Inputs: the MRZ strings of the crate's tests *)

MRZ_PASSPORT ==
    <<
       "P", "<", "U", "T", "O", "E", "R", "I", "K", "S", "S", "O", "N", "<", "<", "A", "N", "N", "A", "<", "M", "A",
       "R", "I", "A", "<", "<", "<", "<", "<", "<", "<", "<", "<", "<", "<", "<", "<", "<", "<", "<", "<", "<", "<",
       "L", "8", "9", "8", "9", "0", "2", "C", "3", "6", "U", "T", "O", "7", "4", "0", "8", "1", "2", "2", "F", "1",
       "2", "0", "4", "1", "5", "9", "Z", "E", "1", "8", "4", "2", "2", "6", "B", "<", "<", "<", "<", "<", "1", "0" >>

MRZ_PASSPORT_FILLERS ==
    <<
       "P", "<", "C", "A", "N", "M", "A", "R", "T", "I", "N", "<", "<", "S", "A", "R", "A", "H", "<", "<", "<", "<",
       "<", "<", "<", "<", "<", "<", "<", "<", "<", "<", "<", "<", "<", "<", "<", "<", "<", "<", "<", "<", "<", "<",
       "Z", "E", "0", "0", "0", "5", "0", "9", "<", "9", "C", "A", "N", "8", "5", "0", "1", "0", "1", "9", "F", "2",
       "3", "0", "1", "1", "4", "7", "<", "<", "<", "<", "<", "<", "<", "<", "<", "<", "<", "<", "<", "<", "0", "8" >>

MRZ_IDENTITY_CARD ==
    <<
       "C", "<", "I", "T", "A", "C", "A", "0", "0", "0", "0", "0", "A", "A", "4",
       "<", "<", "<", "<", "<", "<", "<", "<", "<", "<", "<", "<", "<", "<", "<",
       "6", "4", "1", "2", "3", "0", "8", "F", "2", "2", "1", "2", "3", "0", "4",
       "I", "T", "A", "<", "<", "<", "<", "<", "<", "<", "<", "<", "<", "<", "0",
       "R", "O", "S", "S", "I", "<", "<", "B", "I", "A", "N", "C", "A", "<", "<",
       "<", "<", "<", "<", "<", "<", "<", "<", "<", "<", "<", "<", "<", "<", "<" >>

MRZ_IDENTITY_CARD_NAMES ==
    <<
       "I", "<", "N", "L", "D", "S", "P", "E", "C", "I", "2", "0", "2", "1", "2",
       "<", "<", "<", "<", "<", "<", "<", "<", "<", "<", "<", "<", "<", "<", "<",
       "6", "5", "0", "3", "1", "0", "1", "F", "3", "1", "0", "8", "0", "2", "2",
       "N", "L", "D", "<", "<", "<", "<", "<", "<", "<", "<", "<", "<", "<", "8",
       "D", "E", "<", "B", "R", "U", "I", "J", "N", "<", "<", "W", "I", "L", "L",
       "E", "K", "E", "<", "L", "I", "S", "E", "L", "O", "T", "T", "E", "<", "<" >>

MRZ_INVALID_LENGTH ==
    <<
       "A", "B", "C", "<", "<" >>

MRZ_INVALID_ENCODING ==
    << "U+1F576", "U+FE0F" >>

\* The vectors with the document code of the invalid_document_type tests.
MRZ_PASSPORT_BAD_TYPE == [MRZ_PASSPORT EXCEPT ![1] = "X"]

MRZ_IDENTITY_CARD_BAD_TYPE == [MRZ_IDENTITY_CARD_NAMES EXCEPT ![1] = "Z"]

BaseInputs ==
    { MRZ_PASSPORT, MRZ_PASSPORT_FILLERS, MRZ_IDENTITY_CARD, MRZ_IDENTITY_CARD_NAMES,
      MRZ_PASSPORT_BAD_TYPE, MRZ_IDENTITY_CARD_BAD_TYPE,
      MRZ_INVALID_LENGTH, MRZ_INVALID_ENCODING }

\* Years the clock may report: a clock that was never set past 1999, the
\* present, and a year past the window of %y.
Years == { 1999, 2026, 2070 }

MaxEdits == 1

MaxNameLen == 5

MaxPieceLen == 3

\* Offsets an edit may touch: the document code, the check-digit positions
\* of each format, and the first offset of the ranges next to them (inside
\* and outside the spans the check digits cover).
EditPositions(s) ==
    IF Len(s) = 88 THEN {0, 43, 44, 53, 54, 63, 64, 71, 72, 86, 87}
    ELSE IF Len(s) = 90 THEN {0, 5, 14, 15, 36, 37, 44, 45, 48, 59, 60}
    ELSE {0}

EditChars == { "P", "I", "7", "<", "\n" }

\* s with the characters from 0-indexed offset off on replaced by piece.
Overwrite(s, off, piece) ==
    [i \in 1..Len(s) |->
        IF i > off /\ i <= off + Len(piece) THEN piece[i - off] ELSE s[i]]

\* The 7-3-1 check digit as the issuer of a document computes it.
Icao_value(c) ==
    IF c \in Digits THEN IndexIn(DigitSeq, c) - 1
    ELSE IF c \in Upper THEN IndexIn(UpperSeq, c) + 9
    ELSE 0

RECURSIVE Icao_sum(_, _)
Icao_sum(s, i) ==
    IF i > Len(s) THEN 0
    ELSE Icao_value(s[i]) * (CASE (i - 1) % 3 = 0 -> 7 [] (i - 1) % 3 = 1 -> 3 [] OTHER -> 1)
         + Icao_sum(s, i + 1)

Icao_digit(span) == DigitSeq[(Icao_sum(span, 1) % 10) + 1]

\* A document issued with the birth field yymmdd: the field, its check digit
\* and the composite check digit are written.
IssueWithBirth(s, yymmdd) ==
    IF Len(s) = 88
    THEN LET a == Overwrite(s, 57, yymmdd \o << Icao_digit(yymmdd) >>)
         IN  Overwrite(a, 87, << Icao_digit(Slice(a, 44, 54) \o Slice(a, 57, 64)
                                            \o Slice(a, 65, 87)) >>)
    ELSE LET a == Overwrite(s, 30, yymmdd \o << Icao_digit(yymmdd) >>)
         IN  Overwrite(a, 59, << Icao_digit(Slice(a, 5, 30) \o Slice(a, 30, 37)
                                            \o Slice(a, 38, 45) \o Slice(a, 48, 59)) >>)

\* Birth and expiry fields written into a document: a calendar date, a
\* letter or filler among the digits (the fields of the two date tests), a
\* day no month has, and for the birth the leap day of year 00.
BirthFields ==
    { << "7", "4", "0", "8", "1", "2" >>, << "7", "A", "0", "8", "1", "2" >>,
      << "7", "4", "0", "2", "3", "0" >>, << "0", "0", "0", "2", "2", "9" >> }

ExpiryFields ==
    { << "1", "2", "0", "4", "1", "5" >>, << "1", "<", "0", "A", "1", "5" >>,
      << "1", "2", "0", "4", "3", "1" >> }

\* What is written at a check-digit position: the digit of the span, another
\* digit, or the filler.
DigitStates == { "good", "bad", "nodigit" }

WriteDigit(s, pos, span, st) ==
    Overwrite(s, pos,
        << IF st = "good" THEN Icao_digit(span)
           ELSE IF st = "bad" THEN DigitSeq[((Icao_sum(span, 1) + 1) % 10) + 1]
           ELSE Filler >>)

\* A TD-3 document with the given date fields, its five check-digit
\* positions written in the order of the line, the composite last.
IssuePassport(b, e, st) ==
    LET s0 == Overwrite(Overwrite(MRZ_PASSPORT, 57, b), 65, e)
        s1 == WriteDigit(s0, 53, Slice(s0, 44, 53), st[1])
        s2 == WriteDigit(s1, 63, Slice(s1, 57, 63), st[2])
        s3 == WriteDigit(s2, 71, Slice(s2, 65, 71), st[3])
        s4 == WriteDigit(s3, 86, Slice(s3, 72, 86), st[4])
    IN  WriteDigit(s4, 87, Slice(s4, 44, 54) \o Slice(s4, 57, 64) \o Slice(s4, 65, 87), st[5])

\* A TD-1 document likewise, with its four check-digit positions.
IssueIdentityCard(b, e, st) ==
    LET s0 == Overwrite(Overwrite(MRZ_IDENTITY_CARD, 30, b), 38, e)
        s1 == WriteDigit(s0, 14, Slice(s0, 5, 14), st[1])
        s2 == WriteDigit(s1, 36, Slice(s1, 30, 36), st[2])
        s3 == WriteDigit(s2, 44, Slice(s2, 38, 44), st[3])
    IN  WriteDigit(s3, 59, Slice(s3, 5, 30) \o Slice(s3, 30, 37)
                                 \o Slice(s3, 38, 45) \o Slice(s3, 48, 59), st[4])

IssuedDocuments ==
    { IssuePassport(b, e, st) :
        b \in BirthFields, e \in ExpiryFields, st \in [1..5 -> DigitStates] }
    \cup
    { IssueIdentityCard(b, e, st) :
        b \in BirthFields, e \in ExpiryFields, st \in [1..4 -> DigitStates] }

TwoDigitSeq(n) == << DigitSeq[(n \div 10) + 1], DigitSeq[(n % 10) + 1] >>

\* Month and day pairs written into the birth field: ordinary days, the
\* leap day, and one that no calendar has.
BirthDays == { <<1, 1>>, <<2, 29>>, <<2, 30>>, <<12, 31>> }

\* Characters of the generated name fields, and the two ways the rest of
\* the field is filled: with filler, or with the letters of a name that
\* runs to the end of the field.
NameChars == { "A", "B", "<" }

NamePads == { "<", "Z" }

NamePrefixes == UNION { [1..k -> NameChars] : k \in 0..MaxNameLen }

NameOffset(s) == IF Len(s) = 88 THEN 5 ELSE 60

NameWidth(s) == IF Len(s) = 88 THEN 38 ELSE 30

---------------------------------------------------------------------------
(* State machine: an input under test, the clock, and the last two calls *)

Call(chk, year, out) == [called |-> TRUE, check |-> chk, now |-> year, out |-> out]

NoCall == [called |-> FALSE, check |-> FALSE, now |-> 0, out |-> Err("None")]

\* A call of verify_check_digit on the concatenation of pieces (one piece
\* for a field, several for a composite) with check_digit, and what it
\* returned once it was made.
Verify(pieces, check_digit, called, out) ==
    [pieces |-> pieces, check_digit |-> check_digit, called |-> called, out |-> out]

NoVerify == Verify(<< >>, 0, FALSE, "None")

\* Spans handed to verify_check_digit: a leading piece over a digit, a
\* letter and the filler, alone or followed by a piece of one character of
\* the MRZ alphabet.
PieceChars == { "1", "Z", "<" }

LeadingPieces == UNION { [1..k -> PieceChars] : k \in 0..MaxPieceLen }

SpanPieces ==
    { << h >> : h \in LeadingPieces }
        \cup { << h, << c >> >> : h \in LeadingPieces, c \in MrzAlphabet }

\* format!("{}{}", ..): the pieces one after the other.
RECURSIVE Concat(_)
Concat(pieces) ==
    IF pieces = << >> THEN << >> ELSE Head(pieces) \o Concat(Tail(pieces))

Init ==
    /\ input \in BaseInputs
    /\ now \in { 2026 }
    /\ last = NoCall
    /\ prev = NoCall
    /\ edits = 0
    /\ verified = NoVerify

\* The caller overwrites one character of the input.
SetChar(p, c) ==
    /\ edits < MaxEdits
    /\ p < Len(input)
    /\ input' = [input EXCEPT ![p + 1] = c]
    /\ edits' = edits + 1
    /\ last' = NoCall
    /\ prev' = NoCall
    /\ UNCHANGED <<now, verified>>

\* The caller drops the last character of the input.
Truncate ==
    /\ edits < MaxEdits
    /\ Len(input) > 0
    /\ input' = SubSeq(input, 1, Len(input) - 1)
    /\ edits' = edits + 1
    /\ last' = NoCall
    /\ prev' = NoCall
    /\ UNCHANGED <<now, verified>>

\* The caller appends a character to the input.
Append1(c) ==
    /\ edits < MaxEdits
    /\ input' = Append(input, c)
    /\ edits' = edits + 1
    /\ last' = NoCall
    /\ prev' = NoCall
    /\ UNCHANGED <<now, verified>>

\* Before the first call, the caller presents a document with another date
\* of birth.
SetBirth(yy, md) ==
    /\ edits = 0
    /\ ~last.called
    /\ input' = IssueWithBirth(input, TwoDigitSeq(yy) \o TwoDigitSeq(md[1]) \o TwoDigitSeq(md[2]))
    /\ edits' = 1
    /\ UNCHANGED <<now, last, prev, verified>>

\* Before the first call, the caller presents a document with another name
\* field.
SetName(prefix, pad) ==
    /\ edits = 0
    /\ ~last.called
    /\ input' = Overwrite(input, NameOffset(input),
                          prefix \o [i \in 1..(NameWidth(input) - Len(prefix)) |-> pad])
    /\ edits' = 1
    /\ UNCHANGED <<now, last, prev, verified>>

\* Time passes between two calls.
Tick ==
    /\ last.called
    /\ \E y \in Years : y > now /\ now' = y
    /\ UNCHANGED <<input, last, prev, edits, verified>>

\* parse(data, check) at the current clock; from_str is Parse(TRUE).
Parse(chk) ==
    /\ last' = Call(chk, now, parse(input, chk, now))
    /\ prev' = last
    /\ UNCHANGED <<input, now, edits, verified>>

Next ==
    \/ \E p \in EditPositions(input), c \in EditChars : SetChar(p, c)
    \/ Truncate
    \/ \E c \in {"<", "\n"} : Append1(c)
    \/ \E chk \in BOOLEAN : Parse(chk)

Spec == Init /\ [][Next]_vars

\* verify_check_digit on the spans and digits drawn at the start.
VerifyCheckDigit ==
    /\ ~verified.called
    /\ verified.pieces # << >>
    /\ verified' = Verify(verified.pieces, verified.check_digit, TRUE,
                          verify_check_digit(Concat(verified.pieces), verified.check_digit))
    /\ UNCHANGED <<input, now, last, prev, edits>>

InitDigit ==
    /\ input = << >>
    /\ now \in { 2026 }
    /\ last = NoCall
    /\ prev = NoCall
    /\ edits = 0
    /\ verified \in { Verify(p, d, FALSE, "None") : p \in SpanPieces, d \in 0..9 }

NextDigit == VerifyCheckDigit

SpecDigit == InitDigit /\ [][NextDigit]_vars

\* parse, with and without checking, on documents whose date fields and
\* check-digit positions are right or wrong in every combination.
InitChecks ==
    /\ input \in IssuedDocuments
    /\ now \in { 1999, 2026 }
    /\ last = NoCall
    /\ prev = NoCall
    /\ edits = 0
    /\ verified = NoVerify

NextChecks == \E chk \in BOOLEAN : Parse(chk)

SpecChecks == InitChecks /\ [][NextChecks]_vars

\* Documents that differ in the date of birth, parsed as the years go by.
InitDates ==
    /\ input \in { MRZ_PASSPORT, MRZ_IDENTITY_CARD_NAMES }
    /\ now \in Years
    /\ last = NoCall
    /\ prev = NoCall
    /\ edits = 0
    /\ verified = NoVerify

NextDates ==
    \/ \E yy \in 0..99, md \in BirthDays : SetBirth(yy, md)
    \/ Tick
    \/ \E chk \in BOOLEAN : Parse(chk)

SpecDates == InitDates /\ [][NextDates]_vars

\* Documents that differ in the name field.
InitNames ==
    /\ input \in { MRZ_PASSPORT, MRZ_IDENTITY_CARD }
    /\ now \in { 2026 }
    /\ last = NoCall
    /\ prev = NoCall
    /\ edits = 0
    /\ verified = NoVerify

NextNames ==
    \/ \E prefix \in NamePrefixes, pad \in NamePads : SetName(prefix, pad)
    \/ \E chk \in BOOLEAN : Parse(chk)

SpecNames == InitNames /\ [][NextNames]_vars

---------------------------------------------------------------------------
(* Properties *)

ShapeValid(s) ==
    /\ Len(s) \in {88, 90}
    /\ \A i \in 1..Len(s) : s[i] \in MrzAlphabet

\* C1: an input whose length is neither 88 nor 90, or that holds a character
\* outside {A-Z, 0-9, '<'}, is answered with InvalidFormat, with and without
\* checking.
C1_InvalidFormat ==
    (last.called /\ ~ShapeValid(input)) => last.out = Err("InvalidFormat")

\* An input of the right length with a line break in it was parsed.
C1_Witness ==
    /\ last.called
    /\ Len(input) = 88
    /\ \E i \in 1..Len(input) : input[i] = "\n"
    /\ last.out = Err("InvalidFormat")

\* C2: on a shape-valid input, a wrong document code at offset 0 is answered
\* with InvalidDocumentType whatever follows it, and a success is a Passport
\* for 88 characters and an IdentityCard for 90.
C2_DocumentType ==
    (last.called /\ ShapeValid(input)) =>
        /\ (Len(input) = 88 /\ At(input, 0) # "P")
              => last.out = Err("InvalidDocumentType")
        /\ (Len(input) = 90 /\ At(input, 0) \notin {"I", "A", "C"})
              => last.out = Err("InvalidDocumentType")
        /\ last.out.kind = "Ok"
              => last.out.doc.type = (IF Len(input) = 88 THEN "Passport" ELSE "IdentityCard")

\* A 90-character input with the passport code was parsed.
C2_Witness ==
    /\ last.called
    /\ ShapeValid(input)
    /\ Len(input) = 90
    /\ At(input, 0) = "P"
    /\ last.out = Err("InvalidDocumentType")

Icao_digit_holds(s, pos, span) ==
    /\ At(s, pos) \in Digits
    /\ At(s, pos) = Icao_digit(span)

\* The five checks of TD-3 and the four of TD-1, by position and span.
ChecksHold(s) ==
    IF Len(s) = 88
    THEN /\ Icao_digit_holds(s, 53, Slice(s, 44, 53))
         /\ Icao_digit_holds(s, 63, Slice(s, 57, 63))
         /\ Icao_digit_holds(s, 71, Slice(s, 65, 71))
         /\ Icao_digit_holds(s, 86, Slice(s, 72, 86))
         /\ Icao_digit_holds(s, 87, Slice(s, 44, 54) \o Slice(s, 57, 64) \o Slice(s, 65, 87))
    ELSE /\ Icao_digit_holds(s, 14, Slice(s, 5, 14))
         /\ Icao_digit_holds(s, 36, Slice(s, 30, 36))
         /\ Icao_digit_holds(s, 44, Slice(s, 38, 44))
         /\ Icao_digit_holds(s, 59, Slice(s, 5, 30) \o Slice(s, 30, 37)
                                      \o Slice(s, 38, 45) \o Slice(s, 48, 59))

\* C3: a checking call returns a Document exactly when the non-checking call
\* returns that Document and every check digit of the format holds.
C3_CheckedIffDigits ==
    (last.called /\ last.check) =>
        LET unchecked == parse(input, FALSE, last.now)
        IN  /\ last.out.kind = "Ok"
                => (unchecked = last.out /\ ShapeValid(input) /\ ChecksHold(input))
            /\ (unchecked.kind = "Ok" /\ ShapeValid(input) /\ ChecksHold(input))
                => last.out = unchecked

\* An identity card passed all four checks.
C3_Witness ==
    /\ last.called
    /\ last.check
    /\ Len(input) = 90
    /\ last.out.kind = "Ok"

\* Characters written over a check-digit position: digits, the letters the
\* parser tells apart (document codes, genders), other letters, the filler.
ProbeChars == { "0", "1", "9", "A", "F", "M", "P", "Z", "<" }

CheckDigitPositions(s) ==
    IF Len(s) = 88 THEN {53, 63, 71, 86, 87} ELSE {14, 36, 44, 59}

\* C4: without checking, the result does not depend on the characters at the
\* check-digit positions.
C4_DigitsNotRead ==
    (last.called /\ ~last.check /\ ShapeValid(input)) =>
        \A p \in CheckDigitPositions(input), c \in ProbeChars :
            parse([input EXCEPT ![p + 1] = c], FALSE, last.now) = last.out

\* A passport whose composite check digit was overwritten with a filler was
\* parsed without checking, and a Document came back.
C4_Witness ==
    /\ last.called
    /\ ~last.check
    /\ Len(input) = 88
    /\ At(input, 87) = Filler
    /\ last.out.kind = "Ok"

BirthField(s) == IF Len(s) = 88 THEN Slice(s, 57, 63) ELSE Slice(s, 30, 36)

DigitsValue(s, i) == 10 * (IndexIn(DigitSeq, s[i]) - 1) + (IndexIn(DigitSeq, s[i + 1]) - 1)

\* C5: after a successful parse the year of birth is 1900+YY when 2000+YY
\* is past the current year and 2000+YY otherwise, and month and day are
\* those of the field.
C5_CenturyRule ==
    (last.called /\ last.out.kind = "Ok") =>
        LET f  == BirthField(input)
            yy == DigitsValue(f, 1)
        IN  last.out.doc.birth_date =
                [year  |-> IF 2000 + yy > last.now THEN 1900 + yy ELSE 2000 + yy,
                 month |-> DigitsValue(f, 3),
                 day   |-> DigitsValue(f, 5)]

\* C6: every call returns a Document or an Error; none aborts.
C6_Total ==
    last.called => last.out.kind \in {"Ok", "Err"}

NameField(s) == Slice(s, NameOffset(s), NameOffset(s) + NameWidth(s))

RECURSIVE JoinTokens(_)
JoinTokens(tokens) ==
    IF tokens = << >> THEN << >>
    ELSE IF Len(tokens) = 1 THEN tokens[1]
    ELSE tokens[1] \o << Filler >> \o JoinTokens(Tail(tokens))

\* Surnames joined with '<', then "<<", then the given names joined with
\* '<', padded with '<' to the width w.
Rejoined(doc, w) ==
    LET body == JoinTokens(doc.surnames) \o << Filler, Filler >> \o JoinTokens(doc.given_names)
    IN  body \o [i \in 1..(w - Len(body)) |-> Filler]

\* The form of a name field as a document is issued with it: it does not
\* begin with '<', and what follows its first "<<" is either filler only,
\* or begins with a name character and has only filler from its own first
\* "<<" on.
CanonicalName(field) ==
    /\ field[1] # Filler
    /\ \E i \in 1..(Len(field) - 1) :
          /\ field[i] = Filler /\ field[i + 1] = Filler
          /\ \A j \in 1..(i - 1) : ~(field[j] = Filler /\ field[j + 1] = Filler)
          /\ \/ \A k \in (i + 2)..Len(field) : field[k] = Filler
             \/ /\ i + 2 <= Len(field)
                /\ field[i + 2] # Filler
                /\ \A j \in (i + 2)..(Len(field) - 1) :
                      (field[j] = Filler /\ field[j + 1] = Filler)
                          => \A k \in j..Len(field) : field[k] = Filler

\* C8: after a successful parse, the names rejoined and padded are the name
\* field of the input.
C8_RoundTrip ==
    (last.called /\ last.out.kind = "Ok") =>
        Rejoined(last.out.doc, NameWidth(input)) = NameField(input)

\* C8 as amended: the round trip holds for name fields of the issued form.
C8_RoundTripCanonical ==
    (last.called /\ last.out.kind = "Ok" /\ CanonicalName(NameField(input))) =>
        Rejoined(last.out.doc, NameWidth(input)) = NameField(input)

\* A field with two surnames and a given name was parsed and rejoins.
C8_Witness ==
    /\ last.called
    /\ last.out.kind = "Ok"
    /\ CanonicalName(NameField(input))
    /\ Len(last.out.doc.surnames) = 2
    /\ Len(last.out.doc.given_names) = 1
    /\ Rejoined(last.out.doc, NameWidth(input)) = NameField(input)

\* C9: after a successful parse the surnames are not empty, and no token of
\* either list is empty or holds a '<'.
C9_NamesNonEmpty ==
    (last.called /\ last.out.kind = "Ok") =>
        /\ last.out.doc.surnames # << >>
        /\ \A tokens \in {last.out.doc.surnames, last.out.doc.given_names} :
              \A i \in 1..Len(tokens) :
                  /\ tokens[i] # << >>
                  /\ \A k \in 1..Len(tokens[i]) : tokens[i][k] # Filler

NoSeparator(field) ==
    \A i \in 1..(Len(field) - 1) : ~(field[i] = Filler /\ field[i + 1] = Filler)

CodeOk(s) ==
    IF Len(s) = 88 THEN At(s, 0) = "P" ELSE At(s, 0) \in {"I", "A", "C"}

\* C10: a name field without "<<" on an otherwise valid input parses, with
\* no given names and the tokens of the whole field as surnames.
C10_NoSeparatorParses ==
    (last.called /\ ShapeValid(input) /\ CodeOk(input) /\ NoSeparator(NameField(input))) =>
        /\ last.out.kind = "Ok"
        /\ last.out.doc.given_names = << >>
        /\ last.out.doc.surnames = name_tokens(NameField(input))

\* C10 as amended: a name field without "<<" makes the name split fail, and
\* the call returns InvalidFormat with and without checking.
C10_NoSeparatorInvalidFormat ==
    (last.called /\ ShapeValid(input) /\ CodeOk(input) /\ NoSeparator(NameField(input))) =>
        last.out = Err("InvalidFormat")

\* A name that runs to the end of the field without "<<" was parsed.
C10_Witness ==
    /\ last.called
    /\ ShapeValid(input) /\ CodeOk(input)
    /\ NoSeparator(NameField(input))
    /\ last.out = Err("InvalidFormat")

\* C11: on a span over the MRZ alphabet and a digit d in 0..9,
\* verify_check_digit returns Ok exactly when d is the 7-3-1 check digit of
\* the span and BadCheckDigit otherwise; over a composite the weights run
\* on across the pieces.
C11_Implements731 ==
    verified.called =>
        LET span == Concat(verified.pieces)
        IN  /\ (verified.out = "Ok") <=> (verified.check_digit = Icao_sum(span, 1) % 10)
            /\ verified.out # "Ok" => verified.out = "BadCheckDigit"

\* A composite of two pieces was accepted with a digit that weights
\* restarting at the second piece would not give.
C11_Witness ==
    /\ verified.called
    /\ Len(verified.pieces) = 2
    /\ verified.out = "Ok"
    /\ verified.check_digit #
          (Icao_sum(verified.pieces[1], 1) + Icao_sum(verified.pieces[2], 1)) % 10

ExpiryField(s) == IF Len(s) = 88 THEN Slice(s, 65, 71) ELSE Slice(s, 38, 44)

\* Six digits YYMMDD naming a day of the calendar; of the years a two-digit
\* year stands for (1970..2069) the leap years are those with YY a multiple of 4.
IsCalendarDate(f) ==
    /\ \A i \in 1..6 : f[i] \in Digits
    /\ LET yy == DigitsValue(f, 1)
           mm == DigitsValue(f, 3)
           dd == DigitsValue(f, 5)
       IN  /\ mm \in 1..12
           /\ dd >= 1
           /\ dd <= (IF mm \in {4, 6, 9, 11} THEN 30
                     ELSE IF mm = 2 THEN (IF yy % 4 = 0 THEN 29 ELSE 28)
                     ELSE 31)

\* Shape-valid, a recognized document code, and "<<" in the name field.
Extractable(s) == ShapeValid(s) /\ CodeOk(s) /\ ~NoSeparator(NameField(s))

\* The error of a check that does not pass.
DigitError(s, pos) == IF At(s, pos) \in Digits THEN "BadCheckDigit" ELSE "ExpectedDigit"

DocumentNumberDigitAt(s) == IF Len(s) = 88 THEN 53 ELSE 14

DocumentNumberSpan(s) == IF Len(s) = 88 THEN Slice(s, 44, 53) ELSE Slice(s, 5, 14)

BirthDigitAt(s) == IF Len(s) = 88 THEN 63 ELSE 36

\* The birth field is 29 February of year 00 and the clock is before 2000:
\* the century rule asks for 29 February 1900 and the call aborts (see C6).
LeapDayOf1900(s, year) ==
    BirthField(s) = << "0", "0", "0", "2", "2", "9" >> /\ year < 2000

\* C12: on a shape-valid input with a recognized document code and "<<" in
\* the name field, with and without checking, a birth field that is not a
\* calendar date gives InvalidBirthDate, and otherwise an expiry field that
\* is not a calendar date gives InvalidExpiryDate, whatever the check-digit
\* positions hold.
C12_FieldErrorsFirst ==
    (last.called /\ Extractable(input)) =>
        IF ~IsCalendarDate(BirthField(input))
        THEN last.out = Err("InvalidBirthDate")
        ELSE ~IsCalendarDate(ExpiryField(input)) => last.out = Err("InvalidExpiryDate")

\* C12 as amended: a checking call verifies the document-number digit before
\* it reads the birth date, and the birth digit before it reads the expiry
\* date. A birth field that is not a calendar date gives InvalidBirthDate
\* unless that first check fails, which gives its error; otherwise an expiry
\* field that is not a calendar date gives InvalidExpiryDate unless the
\* document-number or the birth check fails, the first of them giving its
\* error, or the call aborts on the leap day of year 00. The expiry,
\* optional-data and composite digits have no part in it.
C12_FieldErrorsInOrder ==
    (last.called /\ Extractable(input)) =>
        LET numberFails == last.check /\ ~Icao_digit_holds(input, DocumentNumberDigitAt(input),
                                                           DocumentNumberSpan(input))
            birthFails  == last.check /\ ~Icao_digit_holds(input, BirthDigitAt(input),
                                                           BirthField(input))
        IN  IF ~IsCalendarDate(BirthField(input))
            THEN last.out = (IF numberFails
                             THEN Err(DigitError(input, DocumentNumberDigitAt(input)))
                             ELSE Err("InvalidBirthDate"))
            ELSE ~IsCalendarDate(ExpiryField(input)) =>
                     last.out = (IF numberFails
                                 THEN Err(DigitError(input, DocumentNumberDigitAt(input)))
                                 ELSE IF LeapDayOf1900(input, last.now) THEN Panic
                                 ELSE IF birthFails
                                 THEN Err(DigitError(input, BirthDigitAt(input)))
                                 ELSE Err("InvalidExpiryDate"))

\* A checking call on a birth field that is no date and a wrong
\* document-number digit returned BadCheckDigit.
C12_Witness ==
    /\ last.called /\ last.check
    /\ Extractable(input)
    /\ ~IsCalendarDate(BirthField(input))
    /\ At(input, DocumentNumberDigitAt(input)) \in Digits
    /\ last.out = Err("BadCheckDigit")

\* The checks of a format in the order document number, birth date, expiry
\* date, optional data (TD-3 only), composite: position of the digit and span.
OrderedChecks(s) ==
    IF Len(s) = 88
    THEN << [at |-> 53, span |-> Slice(s, 44, 53)],
            [at |-> 63, span |-> Slice(s, 57, 63)],
            [at |-> 71, span |-> Slice(s, 65, 71)],
            [at |-> 86, span |-> Slice(s, 72, 86)],
            [at |-> 87, span |-> Slice(s, 44, 54) \o Slice(s, 57, 64) \o Slice(s, 65, 87)] >>
    ELSE << [at |-> 14, span |-> Slice(s, 5, 14)],
            [at |-> 36, span |-> Slice(s, 30, 36)],
            [at |-> 44, span |-> Slice(s, 38, 44)],
            [at |-> 59, span |-> Slice(s, 5, 30) \o Slice(s, 30, 37)
                                   \o Slice(s, 38, 45) \o Slice(s, 48, 59)] >>

\* The checks that do not pass, by their place in the order.
FailingChecks(s) ==
    { k \in 1..Len(OrderedChecks(s)) :
        ~Icao_digit_holds(s, OrderedChecks(s)[k].at, OrderedChecks(s)[k].span) }

FirstFailingCheck(s) ==
    CHOOSE k \in FailingChecks(s) : \A j \in FailingChecks(s) : k <= j

\* C13: when the call without checking succeeds, the checking call succeeds
\* if every check passes, and otherwise returns the error of the first check
\* in order that does not pass: ExpectedDigit when its position holds no
\* digit, BadCheckDigit when it holds another digit than the computed one.
C13_FirstFailingCheck ==
    (last.called /\ last.check /\ parse(input, FALSE, last.now).kind = "Ok") =>
        IF FailingChecks(input) = {}
        THEN last.out.kind = "Ok"
        ELSE last.out = Err(DigitError(input, OrderedChecks(input)[FirstFailingCheck(input)].at))

\* A checking call on a document that parses without checking, with two
\* checks failing in different ways, returned the error of the earlier one.
C13_Witness ==
    /\ last.called /\ last.check
    /\ parse(input, FALSE, last.now).kind = "Ok"
    /\ \E j, k \in FailingChecks(input) :
          /\ j = FirstFailingCheck(input)
          /\ j < k
          /\ At(input, OrderedChecks(input)[j].at) \notin Digits
          /\ At(input, OrderedChecks(input)[k].at) \in Digits
    /\ last.out = Err("ExpectedDigit")

===========================================================================
